---------------------------- MODULE Spec2Model ----------------------------
(***************************************************************************)
(* firepulse-planning-engine: the job dispatcher (src/src/worker.py,       *)
(* src/src/router.py, src/src/app.py) and one run of the scheduling model  *)
(* (src/src/solver.py, entities under src/src/entities and src/entity).    *)
(*                                                                         *)
(* Two specifications share the module:                                    *)
(*   SpecWorker  the asyncio dispatcher: submissions, the single           *)
(*               worker_processor task, its child process, shutdown;       *)
(*   SpecSolve   one run of solve(): the CP-SAT model it builds and the    *)
(*               valuations the external engine may return for it.         *)
(***************************************************************************)
EXTENDS Integers, Sequences, FiniteSets, TLC

VARIABLES
    \* ---- dispatcher (worker.py, router.py, app.py)
    job_queue,                  \* asyncio.Queue(): the waiting jobs, head first
    unfinished_tasks,           \* asyncio.Queue._unfinished_tasks (put / task_done)
    worker_pc,                  \* where worker_processor is suspended
    job_payload,                \* the job worker_processor holds
    process,                    \* the child of the current job: its state
    children,                   \* seq numbers of the jobs whose child process is alive
    _average_duration_seconds,  \* worker.py:9
    app,                        \* lifespan: "serving", "stopping" or "stopped"
    last_ack,                   \* what generate_planning returned last
    next_seq,                   \* number of puts so far (ghost: job identity)
    dequeued,                   \* ghost: seq numbers in the order the worker got them
    outcome,                    \* ghost: seq number -> how the job ended
    launch_count,               \* ghost: seq number -> create_subprocess_exec calls
    recorded,                   \* ghost: the durations the estimate was updated with
    \* ---- one run of solve() (solver.py)
    run_pc,                     \* position of the run
    firefighters,               \* solve(): the firefighters _get_data returned
    availability_slots,         \* AvailabilitySlot records of the registry service
    X,                          \* Presence: X[p][j] in {0, 1}
    Y,                          \* RoleAssignment: the (p, v, r, j) with Y = 1
    vehicule_actif,             \* the (v, j) whose vehicule_actif variable is 1
    vehicule_ok,                \* the (v, j) whose vehicule_ok variable is 1
    status,                     \* CpSolver status of the run
    shifts_assignment,          \* what run_solver returned
    exit_code,                  \* exit status of the run's process, -1 while it runs
    moves,                      \* search moves the engine made from its seed
    ecarts,                     \* value of the ecart variable of each firefighter
    found,                      \* a solution the engine found earlier in its search
    fetch_error,                \* the fetch of _get_data that raised, "none" if none
    calls,                      \* the push calls the run made on remote_client, in order
    finalization_dto,           \* the body finalize_planning posted
    planning_status,            \* status of the planning record in the planning service
    \* ---- the shared client of a process (utils/remote_client.py)
    remote_client,              \* the fields of the _RemoteClient object
    callers,                    \* the coroutines of the process that call _get_headers
    now,                        \* time.time(), in refresh intervals
    logins                      \* ghost: the calls of login(), in order

workerVars == <<job_queue, unfinished_tasks, worker_pc, job_payload, process,
                children, _average_duration_seconds, app, last_ack, next_seq,
                dequeued, outcome, launch_count, recorded>>
solveVars == <<run_pc, firefighters, availability_slots, X, Y, vehicule_actif, vehicule_ok,
               status, shifts_assignment, exit_code, moves, ecarts, found,
               fetch_error, calls, finalization_dto, planning_status>>
pushVars == <<fetch_error, calls, finalization_dto, planning_status>>
objVars == <<ecarts, found>>
clientVars == <<remote_client, callers, now, logins>>
vars == <<workerVars, solveVars, clientVars>>

\* ------------------------------------------------------------------------
\* Bounds of the model
\* ------------------------------------------------------------------------
MaxJobs == 3          \* puts on job_queue in one behaviour
NbCallers == 2        \* coroutines of one process that call the remote client
MaxTime == 2          \* refresh intervals the clock of the model runs
MaxLogins == 2        \* calls of login() after which no login fails any more
PlanningIds == {"P1", "P2"}
Durations == {0, 10, 20}   \* time.time() - start_time, in seconds

\* ------------------------------------------------------------------------
\* Values
\* ------------------------------------------------------------------------
\* Python values the estimate and the acknowledgement can hold: None, a float
\* (kept exact as num/den) or the string "N/A".
NoneVal == [tag |-> "None", num |-> 0, den |-> 1]
StrNA == [tag |-> "N/A", num |-> 0, den |-> 1]
Float(n, d) == [tag |-> "float", num |-> n, den |-> d]

\* What a producer can put on job_queue: the dict generate_planning builds, a
\* dict without the key, or a value that is no dict.
ValidPayload(pid) == [is_dict |-> TRUE, has_planning_id |-> TRUE, planning_id |-> pid]
InvalidPayloads ==
    { [is_dict |-> TRUE, has_planning_id |-> FALSE, planning_id |-> "-"],
      [is_dict |-> FALSE, has_planning_id |-> FALSE, planning_id |-> "-"] }
\* The engine has not found a solution yet.
NoSolution == [armed |-> -1, objectives |-> {}]
\* No PlanningFinalizationDto has been posted.
NoDto == [fields |-> {}, shiftAssignments |-> <<>>, vehicleAvailabilities |-> <<>>]
NoJob == [seq |-> 0, payload |-> [is_dict |-> FALSE, has_planning_id |-> FALSE, planning_id |-> "-"]]

\* worker.py:29, negated: the payload passes the validation.
IsValidPayload(p) == p.is_dict /\ p.has_planning_id

\* Python truthiness of `x` in `x or "N/A"`: None and 0.0 are falsy.
Truthy(x) == x.tag = "float" /\ x.num # 0

\* router.py:34: get_job_average_duration_seconds() or "N/A"
OrNA(x) == IF Truthy(x) THEN x ELSE StrNA

\* Faulty variant: the weights of the old estimate and the new duration swapped.
UpdateAverage_Swapped(avg, duration) ==
    IF avg = NoneVal
    THEN Float(duration, 1)
    ELSE Float(avg.num + 9 * duration * avg.den, avg.den * 10)

\* worker.py:57-61: the moving average after a run of `duration` seconds.
UpdateAverage(avg, duration) ==
    IF avg = NoneVal
    THEN Float(duration, 1)
    ELSE Float(avg.num * 9 + duration * avg.den, avg.den * 10)


\* ------------------------------------------------------------------------
\* Dispatcher: router.py, worker.py, app.py
\* ------------------------------------------------------------------------
SolveIdle ==
    /\ run_pc = "idle"
    /\ firefighters = {}
    /\ availability_slots = {}
    /\ X = <<>>
    /\ Y = {}
    /\ vehicule_actif = {}
    /\ vehicule_ok = {}
    /\ status = "NONE"
    /\ shifts_assignment = <<>>
    /\ exit_code = -1
    /\ moves = 0
    /\ ecarts = <<>>
    /\ found = NoSolution
    /\ fetch_error = "none"
    /\ calls = <<>>
    /\ finalization_dto = NoDto
    /\ planning_status = "GENERATING"

\* lifespan() has created the worker_processor task; the queue is empty and no
\* run has been recorded.
WorkerIdle ==
    /\ job_queue = <<>>
    /\ unfinished_tasks = 0
    /\ worker_pc = "get"
    /\ job_payload = NoJob
    /\ process = "none"
    /\ children = {}
    /\ _average_duration_seconds = NoneVal
    /\ app = "serving"
    /\ last_ack = [positionInQueue |-> 0, averageDurationSeconds |-> NoneVal]
    /\ next_seq = 0
    /\ dequeued = <<>>
    /\ outcome = <<>>
    /\ launch_count = <<>>
    /\ recorded = <<>>

\* _RemoteClient.__init__ (remote_client.py:21-25): no token, the lock free;
\* no coroutine is calling the client.
NoToken == 0
Callers == 1 .. NbCallers
ClientIdle ==
    /\ remote_client = [_auth_token |-> NoToken,
                        _last_auth_refresh_time |-> 0,
                        _auth_refresh_lock |-> [owner |-> 0, waiters |-> <<>>],
                        is_closed |-> FALSE]
    /\ callers = [c \in Callers |->
                    [pc |-> "idle", current_time |-> 0, headers |-> NoToken, waited |-> FALSE]]
    /\ now = 0
    /\ logins = <<>>

InitWorker == WorkerIdle /\ SolveIdle /\ ClientIdle

\* Faulty variant: a queue of maxsize 1, whose put() suspends while it is full.
QueuePut_Bounded(payload) ==
    /\ next_seq < MaxJobs
    /\ Len(job_queue) < 1
    /\ next_seq' = next_seq + 1
    /\ job_queue' = Append(job_queue, [seq |-> next_seq + 1, payload |-> payload])
    /\ unfinished_tasks' = unfinished_tasks + 1
    /\ outcome' = Append(outcome, "QUEUED")
    /\ launch_count' = Append(launch_count, 0)

\* asyncio.Queue.put on an unbounded queue: never suspends.
QueuePut(payload) ==
    /\ next_seq < MaxJobs
    /\ next_seq' = next_seq + 1
    /\ job_queue' = Append(job_queue, [seq |-> next_seq + 1, payload |-> payload])
    /\ unfinished_tasks' = unfinished_tasks + 1
    /\ outcome' = Append(outcome, "QUEUED")
    /\ launch_count' = Append(launch_count, 0)

\* Faulty variant: the item just put is not counted.
qsize_Others(q) == Len(q) - 1

\* asyncio.Queue.qsize(): the number of items in the queue.
qsize(q) == Len(q)

\* POST /planning/{planning_id}/generate. put() does not yield on an unbounded
\* queue, so the enqueue and the read of qsize() are one step of the event loop.
generate_planning(planning_id) ==
    /\ app = "serving"
    /\ QueuePut(ValidPayload(planning_id))
    /\ last_ack' = [positionInQueue |-> qsize(job_queue'),
                    averageDurationSeconds |-> OrNA(_average_duration_seconds)]
    /\ UNCHANGED <<worker_pc, job_payload, process, children,
                   _average_duration_seconds, app, dequeued>>
    /\ UNCHANGED recorded
    /\ UNCHANGED solveVars
    /\ UNCHANGED clientVars

\* job_queue is a module-level object: another producer of the process can put
\* any value on it, which is what the validation of worker.py:29 is for.
put_raw(payload) ==
    /\ app = "serving"
    /\ QueuePut(payload)
    /\ UNCHANGED <<worker_pc, job_payload, process, children,
                   _average_duration_seconds, app, last_ack, dequeued>>
    /\ UNCHANGED recorded
    /\ UNCHANGED solveVars
    /\ UNCHANGED clientVars

\* asyncio.Queue.task_done()
TaskDone == unfinished_tasks' = unfinished_tasks - 1

\* Faulty variant: the last item put is handed out first.
QueueGet_Lifo(q) == <<q[Len(q)], SubSeq(q, 1, Len(q) - 1)>>

\* asyncio.Queue.get() on a non-empty queue (a deque, popleft): the item handed
\* out and the queue left.
QueueGet(q) == <<Head(q), Tail(q)>>

\* worker.py:26-34: the loop gets the next job; an invalid payload is logged
\* and dropped (task_done, continue), a valid one goes on to the launch.
worker_get ==
    /\ worker_pc = "get"
    /\ job_queue # <<>>
    /\ LET j == QueueGet(job_queue)[1] IN
        /\ job_queue' = QueueGet(job_queue)[2]
        /\ dequeued' = Append(dequeued, j.seq)
        /\ IF ~IsValidPayload(j.payload)
           THEN /\ TaskDone
                /\ outcome' = [outcome EXCEPT ![j.seq] = "DROPPED"]
                /\ UNCHANGED <<worker_pc, job_payload, launch_count>>
           ELSE /\ worker_pc' = "launch"
                /\ job_payload' = j
                /\ launch_count' = [launch_count EXCEPT ![j.seq] = @ + 1]
                /\ outcome' = [outcome EXCEPT ![j.seq] = "RUNNING"]
                /\ UNCHANGED unfinished_tasks
    /\ UNCHANGED <<process, children, _average_duration_seconds, app, last_ack, next_seq>>
    /\ UNCHANGED recorded
    /\ UNCHANGED solveVars
    /\ UNCHANGED clientVars

\* Faulty variant: the loop does not await communicate() and goes back to get().
worker_spawned_NoAwait ==
    /\ worker_pc = "launch"
    /\ process' = "running"
    /\ children' = children \cup {job_payload.seq}
    /\ worker_pc' = "get"
    /\ UNCHANGED <<job_queue, unfinished_tasks, job_payload, _average_duration_seconds,
                   app, last_ack, next_seq, dequeued, outcome, launch_count>>
    /\ UNCHANGED recorded
    /\ UNCHANGED solveVars
    /\ UNCHANGED clientVars

\* worker.py:41-50: create_subprocess_exec returned a process; the loop now
\* awaits process.communicate().
worker_spawned ==
    /\ worker_pc = "launch"
    /\ process' = "running"
    /\ children' = children \cup {job_payload.seq}
    /\ worker_pc' = "communicate"
    /\ UNCHANGED <<job_queue, unfinished_tasks, job_payload, _average_duration_seconds,
                   app, last_ack, next_seq, dequeued, outcome, launch_count>>
    /\ UNCHANGED recorded
    /\ UNCHANGED solveVars
    /\ UNCHANGED clientVars

\* Faulty variant: a job whose launch raised is put back on the queue.
worker_launch_error_Retry ==
    /\ worker_pc = "launch"
    /\ job_queue' = Append(job_queue, job_payload)
    /\ outcome' = [outcome EXCEPT ![job_payload.seq] = "QUEUED"]
    /\ worker_pc' = "get"
    /\ job_payload' = NoJob
    /\ UNCHANGED <<unfinished_tasks, process, children, _average_duration_seconds,
                   app, last_ack, next_seq, dequeued, launch_count>>
    /\ UNCHANGED recorded
    /\ UNCHANGED solveVars
    /\ UNCHANGED clientVars

\* Faulty variant: the exception of the launch leaves the loop.
worker_launch_error_Raise ==
    /\ worker_pc = "launch"
    /\ TaskDone
    /\ outcome' = [outcome EXCEPT ![job_payload.seq] = "LAUNCH_ERROR"]
    /\ worker_pc' = "stopped"
    /\ job_payload' = NoJob
    /\ UNCHANGED <<job_queue, process, children, _average_duration_seconds,
                   app, last_ack, next_seq, dequeued, launch_count>>
    /\ UNCHANGED recorded
    /\ UNCHANGED solveVars
    /\ UNCHANGED clientVars

\* worker.py:68-71: create_subprocess_exec raised; logged, task_done, next job.
worker_launch_error ==
    /\ worker_pc = "launch"
    /\ TaskDone
    /\ outcome' = [outcome EXCEPT ![job_payload.seq] = "LAUNCH_ERROR"]
    /\ worker_pc' = "get"
    /\ job_payload' = NoJob
    /\ UNCHANGED <<job_queue, process, children, _average_duration_seconds,
                   app, last_ack, next_seq, dequeued, launch_count>>
    /\ UNCHANGED recorded
    /\ UNCHANGED solveVars
    /\ UNCHANGED clientVars

\* The child process ends with a return code (solver.py __main__); a child
\* orphaned by a shutdown still ends on its own.
child_exit(returncode) ==
    /\ process = "running"
    /\ job_payload.seq \in children
    /\ children' = children \ {job_payload.seq}
    /\ process' = IF returncode = 0 THEN "exit0" ELSE "exit1"
    /\ UNCHANGED <<job_queue, unfinished_tasks, worker_pc, job_payload,
                   _average_duration_seconds, app, last_ack, next_seq, dequeued,
                   outcome, launch_count>>
    /\ UNCHANGED recorded
    /\ UNCHANGED solveVars
    /\ UNCHANGED clientVars

\* Faulty variant: the estimate is updated whatever the return code.
worker_communicate_AnyCode(duration) ==
    /\ worker_pc = "communicate"
    /\ process \in {"exit0", "exit1"}
    /\ _average_duration_seconds' = UpdateAverage(_average_duration_seconds, duration)
    /\ recorded' = Append(recorded, duration)
    /\ outcome' = [outcome EXCEPT ![job_payload.seq] =
                     IF process = "exit0" THEN "SUCCEEDED" ELSE "FAILED"]
    /\ TaskDone
    /\ worker_pc' = "get"
    /\ process' = "none"
    /\ job_payload' = NoJob
    /\ UNCHANGED <<job_queue, children, app, last_ack, next_seq, dequeued, launch_count>>
    /\ UNCHANGED solveVars
    /\ UNCHANGED clientVars

\* worker.py:50-71: communicate() returned; the duration is measured, the
\* estimate updated on return code 0, then task_done and back to the loop head.
worker_communicate(duration) ==
    /\ worker_pc = "communicate"
    /\ process \in {"exit0", "exit1"}
    /\ IF process = "exit0"
       THEN /\ _average_duration_seconds' = UpdateAverage(_average_duration_seconds, duration)
            /\ recorded' = Append(recorded, duration)
            /\ outcome' = [outcome EXCEPT ![job_payload.seq] = "SUCCEEDED"]
       ELSE /\ outcome' = [outcome EXCEPT ![job_payload.seq] = "FAILED"]
            /\ UNCHANGED <<_average_duration_seconds, recorded>>
    /\ TaskDone
    /\ worker_pc' = "get"
    /\ process' = "none"
    /\ job_payload' = NoJob
    /\ UNCHANGED <<job_queue, children, app, last_ack, next_seq, dequeued, launch_count>>
    /\ UNCHANGED solveVars
    /\ UNCHANGED clientVars

\* asyncio.Task.cancel() on a task suspended at the await `pc`: the next step
\* of the task is the CancelledError raised at that await, whatever the
\* awaited future has become in the meantime.
Cancelling(pc) ==
    CASE pc = "get" -> "cancelling_get"
      [] pc = "launch" -> "cancelling_launch"
      [] pc = "communicate" -> "cancelling_communicate"

\* app.py:28-31: shutdown. lifespan calls task.cancel() and awaits the task.
lifespan_shutdown ==
    /\ app = "serving"
    /\ app' = "stopping"
    /\ worker_pc' = Cancelling(worker_pc)
    /\ UNCHANGED <<job_queue, unfinished_tasks, job_payload, process, children,
                   _average_duration_seconds, last_ack, next_seq, dequeued,
                   outcome, launch_count>>
    /\ UNCHANGED recorded
    /\ UNCHANGED solveVars
    /\ UNCHANGED clientVars

\* Faulty variant: the loop catches the cancellation like a failure of the
\* job (`except BaseException`) and goes on with the next job.
worker_cancelled_Swallowed ==
    /\ worker_pc \in {"cancelling_get", "cancelling_launch", "cancelling_communicate"}
    /\ worker_pc' = "get"
    /\ IF worker_pc \in {"cancelling_launch", "cancelling_communicate"}
       THEN /\ TaskDone
            /\ outcome' = [outcome EXCEPT ![job_payload.seq] = "CANCELLED"]
            /\ job_payload' = NoJob
       ELSE UNCHANGED <<unfinished_tasks, outcome, job_payload>>
    /\ UNCHANGED <<job_queue, process, children, app,
                   _average_duration_seconds, last_ack, next_seq, dequeued, launch_count>>
    /\ UNCHANGED recorded
    /\ UNCHANGED solveVars
    /\ UNCHANGED clientVars

\* worker.py:23-71 when CancelledError is raised at the await the task was
\* suspended on: outside the try at get() (the item stays on the queue, no
\* task_done), inside it at the launch or at communicate() (the finally runs
\* task_done; CancelledError is no Exception, so it leaves the loop and the
\* task ends). A child that is running is neither killed nor reaped.
worker_cancelled ==
    /\ worker_pc \in {"cancelling_get", "cancelling_launch", "cancelling_communicate"}
    /\ worker_pc' = "cancelled"
    /\ IF worker_pc \in {"cancelling_launch", "cancelling_communicate"}
       THEN /\ TaskDone
            /\ outcome' = [outcome EXCEPT ![job_payload.seq] = "CANCELLED"]
       ELSE UNCHANGED <<unfinished_tasks, outcome>>
    /\ UNCHANGED <<job_queue, job_payload, process, children, app,
                   _average_duration_seconds, last_ack, next_seq, dequeued, launch_count>>
    /\ UNCHANGED recorded
    /\ UNCHANGED solveVars
    /\ UNCHANGED clientVars

\* app.py:30-32: `await task` returned (the task has ended), then
\* remote_client.close() and the application stops.
lifespan_close ==
    /\ app = "stopping"
    /\ worker_pc = "cancelled"
    /\ app' = "stopped"
    /\ remote_client' = [remote_client EXCEPT !.is_closed = TRUE]
    /\ UNCHANGED <<job_queue, unfinished_tasks, worker_pc, job_payload, process, children,
                   _average_duration_seconds, last_ack, next_seq, dequeued,
                   outcome, launch_count>>
    /\ UNCHANGED recorded
    /\ UNCHANGED solveVars
    /\ UNCHANGED <<callers, now, logins>>

NextWorker ==
    \/ \E pid \in PlanningIds : generate_planning(pid)
    \/ \E p \in InvalidPayloads : put_raw(p)
    \/ worker_get
    \/ worker_spawned
    \/ worker_launch_error
    \/ \E rc \in {0, 1} : child_exit(rc)
    \/ \E d \in Durations : worker_communicate(d)
    \/ lifespan_shutdown
    \/ worker_cancelled
    \/ lifespan_close

SpecWorker == InitWorker /\ [][NextWorker]_vars

\* The dispatcher while no shutdown occurs, with the scheduling the event loop
\* gives: the worker_processor task takes its next step whenever it can (the
\* loop runs every ready task), and every child process launched terminates.
worker_step ==
    \/ worker_get
    \/ worker_spawned
    \/ worker_launch_error
    \/ \E d \in Durations : worker_communicate(d)

NextWorkerLive ==
    \/ \E pid \in PlanningIds : generate_planning(pid)
    \/ \E p \in InvalidPayloads : put_raw(p)
    \/ worker_step
    \/ \E rc \in {0, 1} : child_exit(rc)

SpecWorkerLive ==
    /\ InitWorker
    /\ [][NextWorkerLive]_vars
    /\ WF_vars(worker_step)
    /\ WF_vars(\E rc \in {0, 1} : child_exit(rc))


\* ------------------------------------------------------------------------
\* One run of solve(): the data
\* ------------------------------------------------------------------------
NbPompiers == 15      \* firefighters of the station (bound of the model)
NbPompiersShort == 13 \* firefighters of a station too small for the daily minimum
MaxMoves == 2         \* search moves of the engine away from its seed (bound)
NbSearched == 4       \* firefighters 1 .. NbSearched: those whose X the moves change

_MAX_WORKING_DAYS_PER_WEEK == 5
_MAX_CONSECUTIVE_WORKING_DAYS == 3
_MIN_FIREFIGHTERS_PER_DAY == 10
_WEEK_DAYS == 0 .. 6

\* entity/pompier.py:13-21
Qualification ==
    {"COND_B", "COND_C", "SUAP", "INC", "PERMIS_AVION", "CHEF_PE", "CHEF_ME", "CHEF_GE"}

\* The roster get_firefighters / get_firefighter_trainings return: the
\* qualifications each firefighter holds (the training flags, solver.py:70-79).
Roster(n) == 1 .. n
RosterQualifications(p) ==
    CASE p = 1 -> {"PERMIS_AVION"}
      [] p = 2 -> {"INC"}
      [] p = 3 -> {"PERMIS_AVION", "INC"}
      [] p = 4 -> {"CHEF_GE"}
      [] p = 5 -> {"CHEF_PE"}
      [] p = 6 -> {"SUAP"}
      [] p = 7 -> {"CHEF_ME"}
      [] OTHER -> {"COND_C"}

\* The `pompiers` parameter of the functions of solver.py: solve() passes the
\* list `firefighters` to every one of them.
pompiers == firefighters

\* Pompier.a_qualification: the flag of exactly that qualification.
a_qualification(p, qualif) == qualif \in RosterQualifications(p)

\* PlanningAvecAffectations.peut_occuper_poste: the exact qualification, or a
\* leadership tier above the one required.
peut_occuper_poste(p, qualif_requise) ==
    IF a_qualification(p, qualif_requise) THEN TRUE
    ELSE IF qualif_requise = "CHEF_PE"
         THEN a_qualification(p, "CHEF_ME") \/ a_qualification(p, "CHEF_GE")
    ELSE IF qualif_requise = "CHEF_ME"
         THEN a_qualification(p, "CHEF_GE")
    ELSE FALSE

\* The vehicle rows get_vehicles returns for the station.
VehiclesInput ==
    << [id |-> "can", type |-> "CANADAIR", totalCount |-> 1],
       [id |-> "hel", type |-> "HELICOPTER", totalCount |-> 0],
       [id |-> "amb", type |-> "AMBULANCE", totalCount |-> 1] >>

\* entities/vehicule.py: the conditions dict of each subclass, in its order.
conditions(type) ==
    CASE type = "AMBULANCE" -> << <<"CHEF_PE", 1>>, <<"COND_B", 1>>, <<"SUAP", 1>> >>
      [] type = "CANADAIR" -> << <<"PERMIS_AVION", 1>>, <<"INC", 1>> >>
      [] type = "SMALL_TRUCK" -> << <<"CHEF_PE", 1>>, <<"COND_B", 1>>, <<"INC", 2>> >>
      [] type = "MEDIUM_TRUCK" -> << <<"CHEF_ME", 1>>, <<"COND_C", 1>>, <<"INC", 3>> >>
      [] type = "LARGE_TRUCK" -> << <<"CHEF_GE", 1>>, <<"COND_C", 1>>, <<"INC", 5>> >>
      [] type = "SMALL_BOAT" -> << <<"CHEF_PE", 1>>, <<"COND_B", 1>>, <<"SUAP", 2>> >>
      [] type = "LARGE_BOAT" -> << <<"CHEF_ME", 1>>, <<"COND_C", 1>>, <<"SUAP", 4>> >>
      [] type = "HELICOPTER" -> << <<"PERMIS_AVION", 1>>, <<"SUAP", 2>> >>

\* Vehicule.__init__: roles.extend([qualif] * nb) for each condition.
RECURSIVE roles_of(_)
roles_of(conds) ==
    IF conds = <<>> THEN <<>>
    ELSE [i \in 1 .. conds[1][2] |-> conds[1][1]] \o roles_of(Tail(conds))

\* _get_vehicules_for_station: totalCount instances of every row, rows with
\* totalCount <= 0 skipped.
RECURSIVE get_vehicules_for_station(_)
get_vehicules_for_station(rows) ==
    IF rows = <<>> THEN <<>>
    ELSE (IF rows[1].totalCount <= 0 THEN <<>>
          ELSE [i \in 1 .. rows[1].totalCount |->
                  [type_name |-> rows[1].type, instance_num |-> i,
                   vehicle_id |-> rows[1].id,
                   roles |-> roles_of(conditions(rows[1].type))]])
         \o get_vehicules_for_station(Tail(rows))

vehicules == get_vehicules_for_station(VehiclesInput)

\* The (v, r) of enumerate(vehicules) x enumerate(v.roles), counted from 1.
RoleSlots == { <<v, r>> \in (1 .. Len(vehicules)) \X (1 .. 7) : r <= Len(vehicules[v].roles) }
VehiculeDays == (1 .. Len(vehicules)) \X _WEEK_DAYS

\* What the registry holds for the week: availability slots of firefighters.
AvailabilityInput ==
    { [firefighterId |-> 7, weekday |-> "TUESDAY", isAvailable |-> FALSE],
      [firefighterId |-> 3, weekday |-> "WEDNESDAY", isAvailable |-> TRUE] }


\* ------------------------------------------------------------------------
\* The CP-SAT model solve() builds.  A valuation is (x, y): x[p][j] the value
\* of X[p, j], y the set of (p, v, r, j) with Y[p, v, r, j] = 1.
\* ------------------------------------------------------------------------
Xv(x, p, j) == x[p][j]
\* sum(Y[p, v_idx, r_idx, j] for p in pompiers); y holds keys of Y only.
nb_pompiers(y, v, r, j) == Cardinality({ a \in y : a[2] = v /\ a[3] = r /\ a[4] = j })

\* Faulty variant: every Y is a Boolean variable.
create_role_assignments_AllFree(p, v, r) == {0, 1}

\* create_role_assignments: the domain of Y[p, v_idx, r_idx, j], a Boolean
\* variable if p holds the role's qualification, else the constant 0.
create_role_assignments(p, v, r) ==
    IF a_qualification(p, vehicules[v].roles[r]) THEN {0, 1} ELSE {0}

\* Faulty variant: a cap of one day more.
add_contrainte_max_jours_Six(x) ==
    \A p \in pompiers :
        Cardinality({ j \in _WEEK_DAYS : x[p][j] = 1 }) <= _MAX_WORKING_DAYS_PER_WEEK + 1
\* add_contrainte_max_jours
add_contrainte_max_jours(x) ==
    \A p \in pompiers :
        Cardinality({ j \in _WEEK_DAYS : x[p][j] = 1 }) <= _MAX_WORKING_DAYS_PER_WEEK

\* add_contrainte_consecutifs: for j in range(5), three consecutive days.
add_contrainte_consecutifs(x) ==
    \A p \in pompiers : \A j \in 0 .. 4 :
        Xv(x, p, j) + Xv(x, p, j + 1) + Xv(x, p, j + 2) <= _MAX_CONSECUTIVE_WORKING_DAYS

\* Faulty variant: one firefighter fewer is enough.
add_contrainte_presence_journaliere_OffByOne(x) ==
    \A j \in _WEEK_DAYS :
        Cardinality({ p \in pompiers : x[p][j] = 1 }) >= _MIN_FIREFIGHTERS_PER_DAY - 1
\* add_contrainte_presence_journaliere
add_contrainte_presence_journaliere(x) ==
    \A j \in _WEEK_DAYS :
        Cardinality({ p \in pompiers : x[p][j] = 1 }) >= _MIN_FIREFIGHTERS_PER_DAY

\* Faulty variant: two roles a day allowed.
add_contrainte_un_role_par_jour_Two(y) ==
    \A p \in pompiers : \A j \in _WEEK_DAYS :
        Cardinality({ a \in y : a[1] = p /\ a[4] = j }) <= 2
\* add_contrainte_un_role_par_jour
add_contrainte_un_role_par_jour(y) ==
    \A p \in pompiers : \A j \in _WEEK_DAYS :
        Cardinality({ a \in y : a[1] = p /\ a[4] = j }) <= 1

\* Faulty variant: the constraint is not added.
add_contrainte_presence_role_Skip(x, y) == TRUE

\* add_contrainte_presence_role: Y[p, v, r, j] <= X[p, j]
add_contrainte_presence_role(x, y) ==
    \A a \in y : 1 <= x[a[1]][a[4]]

\* Faulty variant: an inactive vehicle may keep up to one firefighter per role
\* (the bound of add_contrainte_roles_vehicules_souple).
add_contrainte_roles_vehicules_Souple(y, v, j, actif) ==
    \A vr \in RoleSlots : vr[1] = v =>
        /\ actif => nb_pompiers(y, v, vr[2], j) = 1
        /\ ~actif => nb_pompiers(y, v, vr[2], j) <= 1

\* Faulty variant: nothing is enforced on a vehicle that is not active.
add_contrainte_roles_vehicules_NoEmpty(y, v, j, actif) ==
    \A vr \in RoleSlots : vr[1] = v =>
        (actif => nb_pompiers(y, v, vr[2], j) = 1)

\* add_contrainte_roles_vehicules, for one (v, j) and a value `actif` of its
\* vehicule_actif variable: every role has exactly 1 firefighter if actif,
\* none if not.
add_contrainte_roles_vehicules(y, v, j, actif) ==
    \A vr \in RoleSlots : vr[1] = v =>
        /\ actif => nb_pompiers(y, v, vr[2], j) = 1
        /\ ~actif => nb_pompiers(y, v, vr[2], j) = 0

\* add_objectif_maximiser_vehicules (448-466), for one (v, j) and a value `ok`
\* of its vehicule_ok variable: role_ok <=> exactly one firefighter on the
\* role, vehicule_ok <=> every role_ok.
vehicule_ok_constraint(y, v, j, ok) ==
    LET role_ok(r) == nb_pompiers(y, v, r, j) = 1
        tous_roles_ok == \A vr \in RoleSlots : vr[1] = v => role_ok(vr[2])
    IN  /\ ok => tous_roles_ok
        /\ ~ok => ~tous_roles_ok

\* The hard constraints solve() adds (871-878), on the X and Y variables.  The
\* model is their conjunction, so the order in which they are listed has no
\* effect; the constraints that fewest valuations satisfy come first.
HardConstraints(x, y) ==
    /\ add_contrainte_presence_role(x, y)
    /\ add_contrainte_max_jours(x)
    /\ add_contrainte_presence_journaliere(x)
    /\ \A vj \in VehiculeDays :
         \E actif \in BOOLEAN : add_contrainte_roles_vehicules(y, vj[1], vj[2], actif)
    /\ add_contrainte_un_role_par_jour(y)
    /\ add_contrainte_consecutifs(x)

\* The values the model forces on the indicator variables, given y.
ActifOf(y) ==
    { vj \in VehiculeDays : add_contrainte_roles_vehicules(y, vj[1], vj[2], TRUE) }
OkOf(y) ==
    { vj \in VehiculeDays : vehicule_ok_constraint(y, vj[1], vj[2], TRUE) }

\* add_objectif_maximiser_vehicules 468-477: totaux[p] == sum(X[p, j]), and
\* the target of the equity term.
moyenne == 5
totaux(x, p) == Cardinality({ j \in _WEEK_DAYS : x[p][j] = 1 })

\* add_objectif_maximiser_vehicules 474-478: ecart = NewIntVar(0, 7) with
\* ecart >= totaux[p] - moyenne and ecart >= moyenne - totaux[p]; `e` is a
\* value the model allows for the ecart variable of p.
ecart_constraint(x, p, e) ==
    /\ e \in 0 .. 7
    /\ e >= totaux(x, p) - moyenne
    /\ e >= moyenne - totaux(x, p)

\* Python's sum() of the values of f over the set S; the values are those of
\* ecart variables, in 0 .. 7.
sum(f, S) ==
    LET n(k) == Cardinality({ a \in S : f[a] = k })
    IN  n(1) + 2 * n(2) + 3 * n(3) + 4 * n(4) + 5 * n(5) + 6 * n(6) + 7 * n(7)

\* Faulty variant: the readiness weight is 10.
add_objectif_maximiser_vehicules_Weight10(vehicules_actifs, e) ==
    10 * Cardinality(vehicules_actifs) - 1 * sum(e, DOMAIN e)

\* add_objectif_maximiser_vehicules 481-485: the expression handed to
\* model.Maximize, for the set of (v, j) whose vehicule_ok is 1 and the values
\* e of the ecart variables.
add_objectif_maximiser_vehicules(vehicules_actifs, e) ==
    1000 * Cardinality(vehicules_actifs) - 1 * sum(e, DOMAIN e)

\* The values of the ecart variables the engine's valuations are enumerated
\* with: the least value the model allows for each firefighter, raised by
\* `slack` up to the upper bound 7 of the variable (0: every ecart at its
\* least value, 7: every ecart at the upper bound).
SlackChoices == {0, 7}
EcartValuation(x, slack) ==
    [p \in pompiers |->
        LET least == IF totaux(x, p) >= moyenne THEN totaux(x, p) - moyenne
                     ELSE moyenne - totaux(x, p)
        IN  IF least + slack > 7 THEN 7 ELSE least + slack]
\* Those of the enumerated slacks whose values satisfy the constraints of the
\* ecart variables.
AllowedSlacks(x, slacks) ==
    { slack \in slacks :
        \A p \in pompiers : ecart_constraint(x, p, EcartValuation(x, slack)[p]) }


\* ------------------------------------------------------------------------
\* One run of solve(): the steps
\* ------------------------------------------------------------------------
\* The engine (CpSolver.Solve) is external: it may return any valuation of the
\* variables, within their domains, that satisfies the constraints added to
\* the model.  The valuations enumerated are those within MaxMoves changes of
\* one Boolean variable from a seed: each firefighter p on duty on the days
\* p + {0, 1, 2, 4, 5} (mod 7), nobody on a vehicle.  The X variables changed
\* are those of the firefighters 1 .. NbSearched (the others of the roster
\* hold the same single qualification and differ by their seed days only);
\* every Y variable can change.
SeedPattern == {0, 1, 2, 4, 5}
SeedX ==
    [p \in pompiers |-> [j \in _WEEK_DAYS |-> IF (j - p) % 7 \in SeedPattern THEN 1 ELSE 0]]

InitSolve ==
    /\ WorkerIdle
    /\ ClientIdle
    /\ run_pc = "get_data"
    /\ firefighters = {}
    /\ availability_slots = AvailabilityInput
    /\ X = <<>>
    /\ Y = {}
    /\ vehicule_actif = {}
    /\ vehicule_ok = {}
    /\ status = "NONE"
    /\ shifts_assignment = <<>>
    /\ exit_code = -1
    /\ moves = 0
    /\ ecarts = <<>>
    /\ found = NoSolution
    /\ fetch_error = "none"
    /\ calls = <<>>
    /\ finalization_dto = NoDto
    /\ planning_status = "GENERATING"

\* solve() 861-881: _get_data returned the firefighters and the vehicles (it
\* fetches the planning, the station, the vehicles, the firefighters and their
\* trainings, and no availability slot); the model is built and handed to the
\* engine.
get_data_ok ==
    /\ run_pc = "get_data"
    /\ run_pc' = "run_solver"
    /\ \E n \in {NbPompiersShort, NbPompiers} : firefighters' = Roster(n)
    /\ X' = SeedX'
    /\ Y' = {}
    /\ UNCHANGED <<availability_slots, vehicule_actif, vehicule_ok, status,
                   shifts_assignment, exit_code, moves>>
    /\ UNCHANGED pushVars
    /\ UNCHANGED objVars
    /\ UNCHANGED workerVars
    /\ UNCHANGED clientVars

\* The fetches of _get_data and of the two helpers it gathers.
Fetches ==
    {"get_planning", "get_fire_station", "get_vehicles", "get_firefighters",
     "get_firefighter_trainings"}

\* Faulty variant: the failure is swallowed and the process ends with status 0.
get_data_error_Swallowed(fetch) ==
    /\ run_pc = "get_data"
    /\ run_pc' = "exited"
    /\ exit_code' = 0
    /\ fetch_error' = fetch
    /\ UNCHANGED <<firefighters, availability_slots, X, Y, vehicule_actif, vehicule_ok,
                   status, shifts_assignment, moves, calls, finalization_dto,
                   planning_status>>
    /\ UNCHANGED objVars
    /\ UNCHANGED workerVars
    /\ UNCHANGED clientVars

\* A fetch of _get_data raised (raise_for_status, or the transport): nothing in
\* _get_data, solve() or __main__ catches it, the exception leaves asyncio.run
\* and the interpreter exits with status 1.
get_data_error(fetch) ==
    /\ run_pc = "get_data"
    /\ run_pc' = "exited"
    /\ exit_code' = 1
    /\ fetch_error' = fetch
    /\ UNCHANGED <<firefighters, availability_slots, X, Y, vehicule_actif, vehicule_ok,
                   status, shifts_assignment, moves, calls, finalization_dto,
                   planning_status>>
    /\ UNCHANGED objVars
    /\ UNCHANGED workerVars
    /\ UNCHANGED clientVars

\* The engine's search changes the value of one X variable.
search_X ==
    /\ run_pc = "run_solver"
    /\ moves < MaxMoves
    /\ \E p \in pompiers \cap (1 .. NbSearched), j \in _WEEK_DAYS :
          X' = [X EXCEPT ![p][j] = 1 - @]
    /\ moves' = moves + 1
    /\ UNCHANGED <<run_pc, firefighters, availability_slots, Y, vehicule_actif, vehicule_ok, status,
                   shifts_assignment, exit_code>>
    /\ UNCHANGED pushVars
    /\ UNCHANGED objVars
    /\ UNCHANGED workerVars
    /\ UNCHANGED clientVars

\* The Y[p, v, r, j] that create_role_assignments made Boolean variables, as
\* (p, v, r): the others are the constant 0 and the search leaves them alone.
BoolVars ==
    { k \in (Roster(NbPompiers) \cup Roster(NbPompiersShort)) \X RoleSlots :
        1 \in create_role_assignments(k[1], k[2][1], k[2][2]) }

\* The engine's search changes the value of one Y variable, within the domain
\* create_role_assignments gave it.
search_Y ==
    /\ run_pc = "run_solver"
    /\ moves < MaxMoves
    /\ \E k \in BoolVars, j \in _WEEK_DAYS :
        LET key == <<k[1], k[2][1], k[2][2], j>>
        IN  /\ k[1] \in pompiers
            /\ Y' = IF key \in Y THEN Y \ {key} ELSE Y \cup {key}
    /\ moves' = moves + 1
    /\ UNCHANGED <<run_pc, firefighters, availability_slots, X, vehicule_actif, vehicule_ok,
                   status, shifts_assignment, exit_code>>
    /\ UNCHANGED pushVars
    /\ UNCHANGED objVars
    /\ UNCHANGED workerVars
    /\ UNCHANGED clientVars

\* run_solver 518-521
jours_noms ==
    <<"MONDAY", "TUESDAY", "WEDNESDAY", "THURSDAY", "FRIDAY", "SATURDAY", "SUNDAY">>

\* Faulty variant: the day index is taken from 1, Monday's record says Tuesday.
decode_shifts_DayShift(x) ==
    [k \in 1 .. (Cardinality(pompiers) * 7) |->
        LET p == ((k - 1) \div 7) + 1
            j == (k - 1) % 7
        IN  [weekday |-> jours_noms[((j + 1) % 7) + 1],
             shiftType |-> IF Xv(x, p, j) = 1 THEN "ON_SHIFT" ELSE "OFF_DUTY",
             firefighterId |-> p]]

\* run_solver 547-570: one record per firefighter and day, firefighter-major.
decode_shifts(x) ==
    [k \in 1 .. (Cardinality(pompiers) * 7) |->
        LET p == ((k - 1) \div 7) + 1
            j == (k - 1) % 7
        IN  [weekday |-> jours_noms[j + 1],
             shiftType |-> IF Xv(x, p, j) = 1 THEN "ON_SHIFT" ELSE "OFF_DUTY",
             firefighterId |-> p]]

\* run_solver 504-667 with status OPTIMAL or FEASIBLE: the engine returns the
\* valuation it holds, which satisfies the model (the guard is written
\* `= TRUE` so that TLC evaluates it as one expression); the shifts are
\* decoded from it.  Whether the engine proved the valuation optimal is not modelled: both
\* statuses are possible for every valuation that satisfies the constraints.
run_solver_found ==
    /\ run_pc = "run_solver"
    /\ HardConstraints(X, Y) = TRUE
    /\ \E st \in {"OPTIMAL", "FEASIBLE"} :
          /\ status' = st
          /\ \E slack \in AllowedSlacks(X, IF st = "OPTIMAL" THEN {0} ELSE SlackChoices) :
                ecarts' = EcartValuation(X, slack)
    /\ \E free \in SUBSET { vj \in ActifOf(Y) :
                              add_contrainte_roles_vehicules(Y, vj[1], vj[2], FALSE) } :
          vehicule_actif' = ActifOf(Y) \ free
    /\ vehicule_ok' = OkOf(Y)
    /\ shifts_assignment' = decode_shifts(X)
    /\ run_pc' = "solved"
    /\ UNCHANGED <<firefighters, availability_slots, X, Y, exit_code, moves, found>>
    /\ UNCHANGED pushVars
    /\ UNCHANGED workerVars
    /\ UNCHANGED clientVars

\* The values of the objective the model allows for the valuation (x, y),
\* over the enumerated values of the ecart variables.
ObjectiveValues(x, y) ==
    { add_objectif_maximiser_vehicules(OkOf(y), EcartValuation(x, slack)) :
        slack \in AllowedSlacks(x, SlackChoices) }

\* The engine's search reaches a valuation that satisfies the model and keeps
\* searching (CpSolver reports the solutions it finds on the way): the number
\* of armed (v, j) of that solution and the objective values the model allows
\* for it are remembered.
search_solution ==
    /\ run_pc = "run_solver"
    /\ found = NoSolution
    /\ moves < MaxMoves
    /\ HardConstraints(X, Y) = TRUE
    /\ found' = [armed |-> Cardinality(OkOf(Y)), objectives |-> ObjectiveValues(X, Y)]
    /\ UNCHANGED <<run_pc, firefighters, availability_slots, X, Y, vehicule_actif,
                   vehicule_ok, status, shifts_assignment, exit_code, moves, ecarts>>
    /\ UNCHANGED pushVars
    /\ UNCHANGED workerVars
    /\ UNCHANGED clientVars

\* run_solver 513-516 with status UNKNOWN: the 30 s budget ran out before the
\* engine reported a valuation satisfying the model; the response carries no
\* valuation and no schedule is returned.
run_solver_unknown ==
    /\ run_pc = "run_solver"
    /\ status' = "UNKNOWN"
    /\ X' = <<>>
    /\ Y' = {}
    /\ moves' = 0
    /\ shifts_assignment' = <<>>
    /\ run_pc' = "solved"
    /\ UNCHANGED <<firefighters, availability_slots, vehicule_actif, vehicule_ok, exit_code>>
    /\ UNCHANGED pushVars
    /\ UNCHANGED objVars
    /\ UNCHANGED workerVars
    /\ UNCHANGED clientVars

\* What the engine can prove about the model solve() builds: summed over the
\* firefighters the constraints of add_contrainte_max_jours allow at most
\* 5 presences each, summed over the days those of
\* add_contrainte_presence_journaliere ask for 10 each; every other constraint
\* holds with all Y at 0.  No valuation exists exactly when the first sum is
\* below the second.
ModelInfeasible ==
    Cardinality(pompiers) * _MAX_WORKING_DAYS_PER_WEEK
        < _MIN_FIREFIGHTERS_PER_DAY * Cardinality(_WEEK_DAYS)

\* run_solver 513-516 with status INFEASIBLE: the engine proved that no
\* valuation satisfies the model; no schedule is returned.
run_solver_infeasible ==
    /\ run_pc = "run_solver"
    /\ ModelInfeasible
    /\ status' = "INFEASIBLE"
    /\ X' = <<>>
    /\ Y' = {}
    /\ moves' = 0
    /\ shifts_assignment' = <<>>
    /\ run_pc' = "solved"
    /\ UNCHANGED <<firefighters, availability_slots, vehicule_actif, vehicule_ok, exit_code>>
    /\ UNCHANGED pushVars
    /\ UNCHANGED objVars
    /\ UNCHANGED workerVars
    /\ UNCHANGED clientVars

\* The process of the run ends with status `code`: the model, the valuation
\* and the schedule it held are gone.
ProcessExit(code) ==
    /\ run_pc' = "exited"
    /\ exit_code' = code
    /\ X' = <<>>
    /\ Y' = {}
    /\ vehicule_actif' = {}
    /\ vehicule_ok' = {}
    /\ shifts_assignment' = <<>>
    /\ moves' = 0
    /\ ecarts' = <<>>
    /\ found' = NoSolution

\* Faulty variant: the result is pushed whatever run_solver returned.
HasSchedule_Always(shifts) == TRUE

\* solve() 884: `if shifts_assignment:`, the list is not empty.
HasSchedule(shifts) == shifts # <<>>

\* solve() 889-894, else branch: no schedule, a message is printed, solve()
\* returns and the process ends with status 0.
solve_no_solution ==
    /\ run_pc = "solved"
    /\ ~HasSchedule(shifts_assignment)
    /\ ProcessExit(0)
    /\ UNCHANGED <<firefighters, availability_slots, status>>
    /\ UNCHANGED pushVars
    /\ UNCHANGED workerVars
    /\ UNCHANGED clientVars

\* solve() 886-887: PlanningFinalizationDto(shiftAssignments=shifts_assignment).
\* The only field set is shiftAssignments; as_dict() dumps with exclude_unset.
PlanningFinalizationDto(shifts) ==
    [fields |-> {"shiftAssignments"}, shiftAssignments |-> shifts,
     vehicleAvailabilities |-> <<>>]

\* solve() 885-887: the class of entities/planning.py declares
\* vehicleAvailabilities without a default, so building the DTO from
\* shiftAssignments alone raises a ValidationError: nothing is posted and the
\* process ends with status 1.
solve_dto_error ==
    /\ run_pc = "solved"
    /\ HasSchedule(shifts_assignment)
    /\ ProcessExit(1)
    /\ UNCHANGED <<firefighters, availability_slots, status>>
    /\ UNCHANGED pushVars
    /\ UNCHANGED workerVars
    /\ UNCHANGED clientVars

\* Faulty variant: a failure of finalize_planning does not end the run.
solve_finalize_Continue(ok) ==
    /\ run_pc = "solved"
    /\ HasSchedule(shifts_assignment)
    /\ calls' = Append(calls, "finalize_planning")
    /\ finalization_dto' =
          IF ok THEN PlanningFinalizationDto(shifts_assignment) ELSE finalization_dto
    /\ run_pc' = "finalized"
    /\ UNCHANGED <<exit_code, X, Y, vehicule_actif, vehicule_ok,
                   shifts_assignment, moves, ecarts, found>>
    /\ UNCHANGED <<firefighters, availability_slots, status, fetch_error, planning_status>>
    /\ UNCHANGED workerVars
    /\ UNCHANGED clientVars

\* solve() 885-887 with the class solver.py imports from build.lib (a built
\* copy, which can predate the vehicleAvailabilities field): the DTO is built
\* and remote_client.finalize_planning posts it; `ok` is whether the request
\* succeeded (raise_for_status).
solve_finalize(ok) ==
    /\ run_pc = "solved"
    /\ HasSchedule(shifts_assignment)
    /\ calls' = Append(calls, "finalize_planning")
    /\ IF ok
       THEN /\ finalization_dto' = PlanningFinalizationDto(shifts_assignment)
            /\ run_pc' = "finalized"
            /\ UNCHANGED <<exit_code, X, Y, vehicule_actif, vehicule_ok,
                           shifts_assignment, moves, ecarts, found>>
       ELSE /\ ProcessExit(1)
            /\ UNCHANGED finalization_dto
    /\ UNCHANGED <<firefighters, availability_slots, status, fetch_error, planning_status>>
    /\ UNCHANGED workerVars
    /\ UNCHANGED clientVars

\* solve() 888-890: remote_client.update_planning(status=FINALIZED), then the
\* run ends: status 0 if the request succeeded, 1 if it raised.
solve_update(ok) ==
    /\ run_pc = "finalized"
    /\ calls' = Append(calls, "update_planning")
    /\ planning_status' = IF ok THEN "FINALIZED" ELSE planning_status
    /\ ProcessExit(IF ok THEN 0 ELSE 1)
    /\ UNCHANGED <<firefighters, availability_slots, status, fetch_error, finalization_dto>>
    /\ UNCHANGED workerVars
    /\ UNCHANGED clientVars

NextSolve ==
    \/ get_data_ok
    \/ \E fetch \in Fetches : get_data_error(fetch)
    \/ search_X
    \/ search_Y
    \/ search_solution
    \/ run_solver_found
    \/ run_solver_unknown
    \/ run_solver_infeasible
    \/ solve_no_solution
    \/ solve_dto_error
    \/ \E ok \in BOOLEAN : solve_finalize(ok)
    \/ \E ok \in BOOLEAN : solve_update(ok)

SpecSolve == InitSolve /\ [][NextSolve]_vars


\* ------------------------------------------------------------------------
\* Properties: the dispatcher
\* ------------------------------------------------------------------------
Terminal == {"SUCCEEDED", "FAILED", "LAUNCH_ERROR", "DROPPED"}

\* C1: in every reachable state of the dispatcher at most one child process
\* launched by worker_processor is alive, whatever the queue holds.
C1_AtMostOneChild == Cardinality(children) <= 1

\* C1 witness: a child is running while other jobs wait in the queue.
C1_Witness == Cardinality(children) = 1 /\ Len(job_queue) >= 2 /\ worker_pc = "communicate"

\* C2: the worker takes the jobs in the order of their enqueue (job k is the
\* k-th put), and whenever a job has been taken every job taken before it has
\* reached a terminal state, so a child only exists for the last job taken.
C2_FifoSerial ==
    /\ \A i \in 1 .. Len(dequeued) : dequeued[i] = i
    /\ \A i \in 1 .. Len(dequeued) - 1 : outcome[dequeued[i]] \in Terminal
    /\ \A c \in children : c = dequeued[Len(dequeued)]

\* C2 witness: the second job taken is running and jobs of each terminal kind
\* came before.
C2_Witness ==
    /\ Len(dequeued) >= 2
    /\ outcome[dequeued[Len(dequeued)]] = "RUNNING"
    /\ children = {dequeued[Len(dequeued)]}
    /\ outcome[dequeued[1]] \in Terminal

\* ------------------------------------------------------------------------
\* The shared client: _RemoteClient._get_headers and login
\* (utils/remote_client.py), called by the coroutines of one process
\* ------------------------------------------------------------------------
\* settings.REMOTE_API_AUTH_TOKEN_REFRESH_INTERVAL_SECONDS (5 hours), in the
\* unit of `now`: the clock of the model counts refresh intervals.
REMOTE_API_AUTH_TOKEN_REFRESH_INTERVAL == 1

\* Faulty variant: no mutual exclusion, every caller enters at once.
LockFree_Always(lock) == TRUE

\* asyncio.Lock.acquire without suspension: the lock is not held and no
\* coroutine waits for it.
LockFree(lock) == lock.owner = 0 /\ lock.waiters = <<>>

\* remote_client.py:42-45: the token is missing or older than the interval.
NeedsLogin(rc, current_time) ==
    \/ rc._auth_token = NoToken
    \/ current_time - rc._last_auth_refresh_time >
           REMOTE_API_AUTH_TOKEN_REFRESH_INTERVAL

\* remote_client.py:40-52, from the acquisition of the lock by caller c (the
\* coroutines in `waiters` still wait) to the next suspension: the clock is
\* read; either login() is called and its POST awaited with the lock held,
\* or the headers are returned with the current token and the lock released.
HoldLock(c, waiters, waited) ==
    IF NeedsLogin(remote_client, now)
    THEN /\ remote_client' = [remote_client EXCEPT
                                  !._auth_refresh_lock = [owner |-> c, waiters |-> waiters]]
         /\ callers' = [callers EXCEPT ![c] =
                          [pc |-> "login", current_time |-> now,
                           headers |-> NoToken, waited |-> waited]]
         /\ logins' = Append(logins, [caller |-> c, start |-> now, result |-> "pending"])
    ELSE /\ remote_client' = [remote_client EXCEPT
                                  !._auth_refresh_lock = [owner |-> 0, waiters |-> waiters]]
         /\ callers' = [callers EXCEPT ![c] =
                          [pc |-> "done", current_time |-> 0,
                           headers |-> remote_client._auth_token, waited |-> waited]]
         /\ UNCHANGED logins

\* A coroutine calls _get_headers(with_auth=True): it takes the lock if it is
\* free, else it is suspended in the queue of the lock.
get_headers(c) ==
    /\ callers[c].pc = "idle"
    /\ IF LockFree(remote_client._auth_refresh_lock)
       THEN HoldLock(c, remote_client._auth_refresh_lock.waiters, FALSE)
       ELSE /\ callers' = [callers EXCEPT ![c].pc = "waiting", ![c].waited = TRUE]
            /\ remote_client' = [remote_client EXCEPT
                                     !._auth_refresh_lock.waiters = Append(@, c)]
            /\ UNCHANGED logins
    /\ UNCHANGED now
    /\ UNCHANGED workerVars
    /\ UNCHANGED solveVars

\* asyncio.Lock.release woke the first waiter: it takes the lock.
lock_wakeup(c) ==
    /\ callers[c].pc = "waiting"
    /\ remote_client._auth_refresh_lock.owner = 0
    /\ remote_client._auth_refresh_lock.waiters # <<>>
    /\ Head(remote_client._auth_refresh_lock.waiters) = c
    /\ HoldLock(c, Tail(remote_client._auth_refresh_lock.waiters), TRUE)
    /\ UNCHANGED now
    /\ UNCHANGED workerVars
    /\ UNCHANGED solveVars

\* The login() call of caller c that has not returned yet.
PendingLogin(c) ==
    CHOOSE k \in 1 .. Len(logins) : logins[k].caller = c /\ logins[k].result = "pending"

\* remote_client.py:46-52 and 60-73: the POST of login() returned.  With a
\* token (the k-th login returns token k) the token and the time read before
\* the login are stored and the headers returned; on an error status or a
\* body without token login() raises, nothing is stored.  Either way the
\* `async with` releases the lock.
login_response(c, ok) ==
    /\ callers[c].pc = "login"
    /\ LET k == PendingLogin(c) IN
        IF ok
        THEN /\ remote_client' = [remote_client EXCEPT
                                      !._auth_token = k,
                                      !._last_auth_refresh_time = callers[c].current_time,
                                      !._auth_refresh_lock.owner = 0]
             /\ callers' = [callers EXCEPT ![c].pc = "done", ![c].headers = k,
                                           ![c].current_time = 0]
             /\ logins' = [logins EXCEPT ![k].result = "ok"]
        ELSE /\ Len(logins) < MaxLogins
             /\ remote_client' = [remote_client EXCEPT !._auth_refresh_lock.owner = 0]
             /\ callers' = [callers EXCEPT ![c].pc = "raised", ![c].current_time = 0]
             /\ logins' = [logins EXCEPT ![k].result = "raised"]
    /\ UNCHANGED now
    /\ UNCHANGED workerVars
    /\ UNCHANGED solveVars

\* The request of the coroutine is over (it used the headers, or the
\* exception of login() ended it); the coroutine may make another one.
request_done(c) ==
    /\ callers[c].pc \in {"done", "raised"}
    /\ callers' = [callers EXCEPT ![c] =
                     [pc |-> "idle", current_time |-> 0, headers |-> NoToken, waited |-> FALSE]]
    /\ UNCHANGED <<remote_client, now, logins>>
    /\ UNCHANGED workerVars
    /\ UNCHANGED solveVars

\* A refresh interval passes.
tick ==
    /\ now < MaxTime
    /\ now' = now + 1
    /\ UNCHANGED <<remote_client, callers, logins>>
    /\ UNCHANGED workerVars
    /\ UNCHANGED solveVars

InitClient == WorkerIdle /\ SolveIdle /\ ClientIdle

NextClient ==
    \/ \E c \in Callers : get_headers(c)
    \/ \E c \in Callers : lock_wakeup(c)
    \/ \E c \in Callers : \E ok \in BOOLEAN : login_response(c, ok)
    \/ \E c \in Callers : request_done(c)
    \/ tick

SpecClient == InitClient /\ [][NextClient]_vars


\* ------------------------------------------------------------------------
\* Properties: the accepted solutions of the model solve() builds
\* ------------------------------------------------------------------------
SolutionStatus == status \in {"OPTIMAL", "FEASIBLE"}
\* run_solver has just returned the valuation of the engine (the steps of
\* solve() after it leave the valuation and the records alone).
Accepted == SolutionStatus /\ run_pc = "solved"
RoleOf(a) == vehicules[a[2]].roles[a[3]]
DaysOn(p) == { j \in _WEEK_DAYS : X[p][j] = 1 }
AllRolesOne(v, j) == \A vr \in RoleSlots : vr[1] = v => nb_pompiers(Y, v, vr[2], j) = 1
AllRolesZero(v, j) == \A vr \in RoleSlots : vr[1] = v => nb_pompiers(Y, v, vr[2], j) = 0
DayIndex(weekday) == CHOOSE j \in _WEEK_DAYS : jours_noms[j + 1] = weekday

\* C3: in every accepted solution every firefighter is present on at most 5 of
\* the 7 days.
C3_WeeklyCap == Accepted => \A p \in pompiers : Cardinality(DaysOn(p)) <= 5

\* C3 witness: an accepted solution the search reached in which a firefighter
\* is present on exactly 5 days and another on fewer.
C3_Witness ==
    /\ Accepted
    /\ moves > 0
    /\ \E p \in pompiers : Cardinality(DaysOn(p)) = 5
    /\ \E p \in pompiers : Cardinality(DaysOn(p)) < 5

\* C4 (as claimed): in every accepted solution no firefighter is present on
\* all 4 days of a window j .. j+3, j in 0 .. 3.
C4_NoFourInARow ==
    Accepted => \A p \in pompiers : \A j \in 0 .. 3 :
        Cardinality(DaysOn(p) \cap (j .. j + 3)) <= 3

\* C5: in every accepted solution at least 10 firefighters are present on
\* every day of the week.
C5_DailyMinimum ==
    Accepted => \A j \in _WEEK_DAYS : Cardinality({ p \in pompiers : X[p][j] = 1 }) >= 10

\* C5 witness: an accepted solution the search reached with exactly 10
\* firefighters on some day.
C5_Witness ==
    /\ Accepted
    /\ moves > 0
    /\ \E j \in _WEEK_DAYS : Cardinality({ p \in pompiers : X[p][j] = 1 }) = 10

\* C6: in every accepted solution a firefighter assigned to a role slot on a
\* day is present that day.
C6_RoleImpliesPresence == Accepted => \A a \in Y : X[a[1]][a[4]] = 1

\* C6 witness: an accepted solution with a role assigned, and a firefighter
\* present on that day without any role.
C6_Witness ==
    /\ Accepted
    /\ \E a \in Y : \E p \in pompiers :
          X[p][a[4]] = 1 /\ \A b \in Y : ~(b[1] = p /\ b[4] = a[4])

\* C7: in every accepted solution a firefighter fills at most one role slot,
\* over all vehicles, on a day.
C7_OneRolePerDay ==
    Accepted => \A p \in pompiers : \A j \in _WEEK_DAYS :
        Cardinality({ a \in Y : a[1] = p /\ a[4] = j }) <= 1

\* C7 witness: an accepted solution in which a firefighter qualified for two
\* role slots of a vehicle fills one of them.
C7_Witness ==
    /\ Accepted
    /\ \E a \in Y : \E vr \in RoleSlots :
          /\ <<vr[1], vr[2]>> # <<a[2], a[3]>>
          /\ a_qualification(a[1], vehicules[vr[1]].roles[vr[2]])

\* C8: in every accepted solution every vehicle instance has, on every day,
\* either exactly one firefighter on each role slot or nobody on any, and its
\* indicators (vehicule_actif of the constraint, vehicule_ok of the objective)
\* are 1 exactly when every role slot has exactly one firefighter.
C8_AllOrNothing ==
    Accepted => \A vj \in VehiculeDays :
        /\ AllRolesOne(vj[1], vj[2]) \/ AllRolesZero(vj[1], vj[2])
        /\ vj \in vehicule_actif <=> AllRolesOne(vj[1], vj[2])
        /\ vj \in vehicule_ok <=> AllRolesOne(vj[1], vj[2])

\* C8 witness: an accepted solution with a vehicle armed on one day and not
\* armed on another.
C8_Witness ==
    /\ Accepted
    /\ \E vj \in vehicule_actif : \E j \in _WEEK_DAYS : <<vj[1], j>> \notin vehicule_actif

\* C9 (as claimed): when an availability slot marks firefighter f unavailable
\* on day d, every accepted solution has X[f, d] = 0 and no role for f on d.
C9_UnavailableIsOff ==
    Accepted => \A slot \in availability_slots :
        ~slot.isAvailable =>
            /\ X[slot.firefighterId][DayIndex(slot.weekday)] = 0
            /\ \A a \in Y : ~(a[1] = slot.firefighterId /\ a[4] = DayIndex(slot.weekday))

\* C10: in every accepted solution a role slot is only filled by a firefighter
\* eligible for it (the exact qualification, or a leadership tier above the
\* required one), and the Y variables of an ineligible firefighter on a slot
\* are the constant 0 on all days.
C10_OnlyEligible ==
    Accepted =>
        /\ \A a \in Y : peut_occuper_poste(a[1], RoleOf(a))
        /\ \A p \in pompiers : \A vr \in RoleSlots :
              ~peut_occuper_poste(p, vehicules[vr[1]].roles[vr[2]]) =>
                  /\ create_role_assignments(p, vr[1], vr[2]) = {0}
                  /\ \A j \in _WEEK_DAYS : <<p, vr[1], vr[2], j>> \notin Y

\* C10 witness: an accepted solution with a role filled, on a vehicle for one
\* of whose slots some firefighter of the roster is not eligible.
C10_Witness ==
    /\ Accepted
    /\ \E a \in Y : \E p \in pompiers : ~peut_occuper_poste(p, RoleOf(a))

\* ------------------------------------------------------------------------
\* Properties: eligibility, infeasible rosters, the result of a run
\* ------------------------------------------------------------------------
LeadershipTiers == {"CHEF_PE", "CHEF_ME", "CHEF_GE"}
SlotRole(vr) == vehicules[vr[1]].roles[vr[2]]
\* A role slot of v requires a qualification no firefighter of the roster can fill.
Unreachable(v) ==
    \E vr \in RoleSlots :
        vr[1] = v /\ \A p \in pompiers : ~peut_occuper_poste(p, SlotRole(vr))
\* The roster cannot deliver the daily minimum: firefighters x 5 < 10 x 7.
ShortRoster == firefighters # {} /\ Cardinality(firefighters) * 5 < 10 * 7
Pushed == calls # <<>>
RunOver == run_pc = "exited"

\* C11 (as claimed): once the model is built, the Y variables of a holder of
\* CHEF_GE are free (domain {0, 1}) on every slot requiring CHEF_PE, CHEF_ME or
\* CHEF_GE, and those of a holder of CHEF_ME on every slot requiring CHEF_ME
\* or CHEF_PE.
C11_LeaderSubstitution ==
    run_pc = "run_solver" =>
        \A p \in pompiers : \A vr \in RoleSlots :
            (\/ a_qualification(p, "CHEF_GE") /\ SlotRole(vr) \in LeadershipTiers
             \/ a_qualification(p, "CHEF_ME") /\ SlotRole(vr) \in {"CHEF_ME", "CHEF_PE"})
            => create_role_assignments(p, vr[1], vr[2]) = {0, 1}

\* C12: in every accepted solution a vehicle instance with a role slot that
\* no firefighter of the roster can fill has nobody on any of its role slots
\* and its indicators at 0, on each of the 7 days.
C12_UnreachableNeverArmed ==
    Accepted => \A v \in 1 .. Len(vehicules) :
        Unreachable(v) => \A j \in _WEEK_DAYS :
            /\ AllRolesZero(v, j)
            /\ <<v, j>> \notin vehicule_actif
            /\ <<v, j>> \notin vehicule_ok

\* C12 witness: an accepted solution for a roster with such a vehicle, one of
\* whose other slots some firefighter can fill, while another vehicle is armed.
C12_Witness ==
    /\ Accepted
    /\ vehicule_actif # {}
    /\ \E vr \in RoleSlots :
          /\ Unreachable(vr[1])
          /\ \E p \in pompiers : a_qualification(p, SlotRole(vr))

\* C13 (as claimed): with firefighters x 5 < 10 x 7 the outcome of the solver
\* is INFEASIBLE and neither finalize_planning nor update_planning is called.
C13_InfeasibleAsClaimed ==
    (ShortRoster /\ run_pc \in {"solved", "finalized", "exited"}) =>
        status = "INFEASIBLE" /\ ~Pushed

\* C13 (amended): with firefighters x 5 < 10 x 7 no valuation the engine holds
\* satisfies the hard constraints, the outcome of the solver is never OPTIMAL
\* or FEASIBLE (it is INFEASIBLE, or UNKNOWN when the time budget ends first),
\* and neither finalize_planning nor update_planning is called.
C13_Infeasible ==
    ShortRoster =>
        /\ run_pc = "run_solver" => ~HardConstraints(X, Y)
        /\ run_pc \in {"solved", "finalized", "exited"} => status \in {"INFEASIBLE", "UNKNOWN"}
        /\ ~Pushed
        /\ planning_status = "GENERATING"

\* C13 witness: the run of a short roster ended after the engine answered
\* INFEASIBLE.
C13_Witness == ShortRoster /\ status = "INFEASIBLE" /\ RunOver

\* C14: when the status is INFEASIBLE or UNKNOWN run_solver returned no
\* schedule, the run makes no push call and its process ends with status 0;
\* a push call is only made after status OPTIMAL or FEASIBLE.
C14_NoPushWithoutSolution ==
    /\ status \in {"INFEASIBLE", "UNKNOWN"} =>
          /\ shifts_assignment = <<>>
          /\ ~Pushed
          /\ planning_status = "GENERATING"
          /\ RunOver => exit_code = 0
    /\ Pushed => SolutionStatus

\* C14 witness: a run whose engine answered UNKNOWN has ended with status 0.
C14_Witness == status = "UNKNOWN" /\ RunOver /\ exit_code = 0

\* C15: on status OPTIMAL or FEASIBLE run_solver returns 7 records per
\* firefighter, no two of them for the same firefighter and weekday (so
\* exactly one for every firefighter and day, day index 0 .. 6 as MONDAY ..
\* SUNDAY), each ON_SHIFT if X[p, j] = 1 and OFF_DUTY otherwise.
C15_ShiftRecords ==
    Accepted =>
        /\ Len(shifts_assignment) = 7 * Cardinality(pompiers)
        /\ Cardinality({ <<shifts_assignment[k].firefighterId, shifts_assignment[k].weekday>> :
                            k \in 1 .. Len(shifts_assignment) }) = Len(shifts_assignment)
        /\ \A k \in 1 .. Len(shifts_assignment) :
              /\ shifts_assignment[k].firefighterId \in pompiers
              /\ \E j \in _WEEK_DAYS :
                    /\ shifts_assignment[k].weekday = jours_noms[j + 1]
                    /\ shifts_assignment[k].shiftType =
                          (IF X[shifts_assignment[k].firefighterId][j] = 1
                           THEN "ON_SHIFT" ELSE "OFF_DUTY")

\* C15 witness: the records of a solution the search reached, in which a
\* firefighter is on shift on Monday and off duty on Tuesday.
C15_Witness ==
    /\ Accepted
    /\ moves > 0
    /\ \E p \in pompiers : X[p][0] = 1 /\ X[p][1] = 0

\* C16 (as claimed): the body finalize_planning posts carries, for every
\* vehicle row and weekday, an availableCount equal to the number of instances
\* of the row armed that day in the solution.
C16_AvailableCounts ==
    finalization_dto # NoDto =>
        /\ "vehicleAvailabilities" \in finalization_dto.fields
        /\ \A i \in 1 .. Len(VehiclesInput) : \A j \in _WEEK_DAYS :
              \E k \in 1 .. Len(finalization_dto.vehicleAvailabilities) :
                  LET a == finalization_dto.vehicleAvailabilities[k] IN
                  /\ a.vehicleId = VehiclesInput[i].id
                  /\ a.weekday = jours_noms[j + 1]
                  /\ a.availableCount =
                        Cardinality({ v \in 1 .. Len(vehicules) :
                                        /\ vehicules[v].vehicle_id = VehiclesInput[i].id
                                        /\ <<v, j>> \in vehicule_ok })

\* C17: when a fetch of _get_data fails the run makes no push call and its
\* process ends with a status other than 0.
C17_FetchFailure ==
    fetch_error # "none" =>
        /\ ~Pushed
        /\ planning_status = "GENERATING"
        /\ RunOver
        /\ exit_code # 0

\* C17 witness: the fetch of the trainings failed and the run is over.
C17_Witness == fetch_error = "get_firefighter_trainings" /\ RunOver /\ exit_code = 1

\* C30: update_planning (status FINALIZED) is only called after a
\* finalize_planning that succeeded and posted the shift records of the
\* solution; after a finalize_planning that failed, or a run without
\* schedule, it is not called, so the planning is FINALIZED only with a
\* pushed schedule.
C30_FinalizedAfterPush ==
    /\ (\E k \in 1 .. Len(calls) : calls[k] = "update_planning") =>
          /\ calls = <<"finalize_planning", "update_planning">>
          /\ finalization_dto # NoDto
    /\ finalization_dto # NoDto =>
          /\ calls[1] = "finalize_planning"
          /\ "shiftAssignments" \in finalization_dto.fields
          /\ Len(finalization_dto.shiftAssignments) = 7 * Cardinality(firefighters)
          /\ run_pc = "finalized" => finalization_dto.shiftAssignments = shifts_assignment
    /\ planning_status = "FINALIZED" =>
          /\ calls = <<"finalize_planning", "update_planning">>
          /\ finalization_dto # NoDto
          /\ SolutionStatus
    /\ (RunOver /\ calls = <<"finalize_planning">>) =>
          /\ finalization_dto = NoDto
          /\ planning_status = "GENERATING"
          /\ exit_code # 0

\* C30 witness: a run has ended with status 0 and the planning FINALIZED,
\* after the shift records of the whole roster were posted.
C30_Witness ==
    /\ RunOver
    /\ exit_code = 0
    /\ planning_status = "FINALIZED"
    /\ Len(finalization_dto.shiftAssignments) = 7 * NbPompiers

\* ------------------------------------------------------------------------
\* Properties: the objective
\* ------------------------------------------------------------------------
Abs(n) == IF n >= 0 THEN n ELSE 0 - n
ArmedOn(j) == Cardinality({ v \in 1 .. Len(vehicules) : <<v, j>> \in vehicule_ok })
\* Sum over the 6 adjacent day pairs of the difference of the armed counts.
DayBalance ==
    LET b(d) == Abs(ArmedOn(d) - ArmedOn(d + 1))
    IN  b(0) + b(1) + b(2) + b(3) + b(4) + b(5)
\* Sum over the firefighters of |weekly presence total - 5|.
Equity == sum([p \in pompiers |-> Abs(totaux(X, p) - 5)], pompiers)
ObjectiveValue == add_objectif_maximiser_vehicules(vehicule_ok, ecarts)

\* C18 (as claimed): for an accepted solution whose ecart variables are at
\* their least values, the objective of the model is 1000 x (armed (v, j)
\* pairs) - 100 x (sum over adjacent days of the difference of the armed
\* counts) - 1 x (sum over firefighters of |weekly total - 5|).
C18_Objective ==
    (Accepted /\ ecarts = EcartValuation(X, 0)) =>
        ObjectiveValue = 1000 * Cardinality(vehicule_ok) - 100 * DayBalance - 1 * Equity

\* C19: for the solution the engine returns and one it found earlier for the
\* same model (fewer than 1000 / 7 firefighters and 100 / 7 vehicles), the
\* one with strictly more armed (v, j) pairs has the strictly greater
\* objective value, whatever the values of the ecart variables.
C19_ReadinessDominates ==
    (/\ Accepted
     /\ found # NoSolution
     /\ Cardinality(pompiers) * 7 < 1000
     /\ Len(vehicules) * 7 < 100) =>
        \A objective \in found.objectives :
            /\ Cardinality(vehicule_ok) > found.armed => ObjectiveValue > objective
            /\ found.armed > Cardinality(vehicule_ok) => objective > ObjectiveValue

\* C19 witness: the solution returned has more armed pairs than the earlier
\* one and every ecart at its upper bound, while the objective values of the
\* earlier one include that of every ecart at 0.
C19_Witness ==
    /\ Accepted
    /\ found # NoSolution
    /\ Cardinality(vehicule_ok) > found.armed
    /\ \A p \in pompiers : ecarts[p] = 7
    /\ 1000 * found.armed \in found.objectives

\* ------------------------------------------------------------------------
\* Properties: the duration estimate
\* ------------------------------------------------------------------------
RECURSIVE EmaOf(_)
\* The estimate after the durations ds, as a fraction: the first duration,
\* then (9 x previous + next) / 10 for each one after it.
EmaOf(ds) ==
    IF Len(ds) = 1 THEN [num |-> ds[1], den |-> 1]
    ELSE LET prev == EmaOf(SubSeq(ds, 1, Len(ds) - 1))
         IN  [num |-> 9 * prev.num + ds[Len(ds)] * prev.den, den |-> 10 * prev.den]

\* C20: the estimate is None while no run has been recorded; after the
\* recorded durations d1 .. dn, in completion order, it is d1 folded with
\* (9 x previous + next) / 10; durations 10 then 20 give 11.
C20_MovingAverage ==
    /\ recorded = <<>> => _average_duration_seconds = NoneVal
    /\ recorded # <<>> =>
          /\ _average_duration_seconds.tag = "float"
          /\ _average_duration_seconds.num * EmaOf(recorded).den
                = EmaOf(recorded).num * _average_duration_seconds.den
    /\ recorded = <<10>> => _average_duration_seconds.num = 10 * _average_duration_seconds.den
    /\ recorded = <<10, 20>> => _average_duration_seconds.num = 11 * _average_duration_seconds.den

\* C20 witness: runs of 10 s then 20 s have been recorded, a failed run
\* between or around them left the estimate alone.
C20_Witness ==
    /\ recorded = <<10, 20>>
    /\ \E i \in 1 .. Len(outcome) : outcome[i] = "FAILED"

\* ------------------------------------------------------------------------
\* Properties: the acknowledgement of a submission
\* ------------------------------------------------------------------------
\* The step is a call of generate_planning: a put of the dict it builds.
Submitted ==
    /\ next_seq' = next_seq + 1
    /\ IsValidPayload(job_queue'[Len(job_queue')].payload)
\* The jobs put on the queue and not yet handed to the dispatcher.
Waiting == { i \in 1 .. next_seq : \A k \in 1 .. Len(dequeued) : dequeued[k] # i }

\* C21: the positionInQueue generate_planning returns is the number of jobs
\* waiting right after the enqueue (put and not yet dequeued), the submitted
\* job included; it is 1 when one other job is running and none is waiting,
\* and never 0.
C21_PositionInQueue ==
    [][Submitted =>
          /\ last_ack'.positionInQueue = Cardinality(Waiting')
          /\ last_ack'.positionInQueue >= 1
          /\ (worker_pc = "communicate" /\ Waiting = {}) => last_ack'.positionInQueue = 1]_vars

\* C21 witness: the second job was just submitted while the first one runs
\* and nothing else waits; its submitter was told 1.
C21_Witness ==
    /\ next_seq = 2
    /\ worker_pc = "communicate"
    /\ outcome[1] = "RUNNING"
    /\ Waiting = {2}
    /\ IsValidPayload(job_queue[1].payload)
    /\ last_ack.positionInQueue = 1

\* C22 (as claimed): the averageDurationSeconds generate_planning returns is
\* "N/A" if and only if no run has been recorded yet; once a run has been
\* recorded it is the numeric estimate, whatever its value.
C22_UnknownIffNoRun ==
    [][Submitted =>
          /\ last_ack'.averageDurationSeconds = StrNA <=> recorded = <<>>
          /\ recorded # <<>> =>
                last_ack'.averageDurationSeconds = _average_duration_seconds]_vars

\* C23: while the application serves (and the bound on the number of puts is
\* not reached) a call of generate_planning can complete at once, for every
\* planning id, in every state of the dispatcher: a job running, any number
\* of jobs waiting, earlier jobs failed.
C23_SubmissionNeverBlocks ==
    (app = "serving" /\ next_seq < MaxJobs) =>
        \A planning_id \in PlanningIds : ENABLED generate_planning(planning_id)

\* C23 witness: a job was submitted and acknowledged while another one was
\* running and one more was waiting.
C23_Witness ==
    /\ worker_pc = "communicate"
    /\ process = "running"
    /\ Len(job_queue) = 2
    /\ job_queue[2].seq = next_seq
    /\ IsValidPayload(job_queue[2].payload)
    /\ last_ack.positionInQueue = 2

\* ------------------------------------------------------------------------
\* Properties: the dispatcher loop
\* ------------------------------------------------------------------------
\* How a dequeued job can end without a child that exited with status 0.
Failures == {"DROPPED", "LAUNCH_ERROR", "FAILED"}

\* C24: while the application serves the dispatcher loop is never stopped:
\* it is at one of its three awaits, at get() whenever it holds no job, so
\* after a job dropped as invalid, a launch that raised or a child that
\* exited non-zero; and at get() with a job queued it can take that job.
C24_LoopSurvives ==
    app = "serving" =>
        /\ worker_pc \in {"get", "launch", "communicate"}
        /\ job_payload = NoJob <=> worker_pc = "get"
        /\ (dequeued # <<>> /\ outcome[dequeued[Len(dequeued)]] \in Terminal) =>
              worker_pc = "get"
        /\ (worker_pc = "get" /\ job_queue # <<>>) => ENABLED worker_get

\* C24 witness: the first two jobs ended in two different ways of failing and
\* the loop is running the third.
C24_Witness ==
    /\ app = "serving"
    /\ Len(outcome) = 3
    /\ {outcome[1], outcome[2]} \subseteq Failures
    /\ outcome[1] # outcome[2]
    /\ outcome[3] = "RUNNING"

\* C25: every job put on the queue is handed to the loop at most once and
\* causes at most one call of create_subprocess_exec; a job that was handed
\* out is not on the queue again, whatever its end; a job dropped as invalid
\* caused no launch.
C25_AtMostOneLaunch ==
    \A i \in 1 .. next_seq :
        /\ launch_count[i] <= 1
        /\ Cardinality({ k \in 1 .. Len(dequeued) : dequeued[k] = i }) <= 1
        /\ Cardinality({ k \in 1 .. Len(job_queue) : job_queue[k].seq = i }) <= 1
        /\ i \notin Waiting => \A k \in 1 .. Len(job_queue) : job_queue[k].seq # i
        /\ outcome[i] = "DROPPED" => launch_count[i] = 0
        /\ outcome[i] = "QUEUED" => launch_count[i] = 0

\* C25 witness: three jobs have ended, one dropped as invalid, one whose
\* launch raised and one whose child exited non-zero; the loop waits on the
\* empty queue.
C25_Witness ==
    /\ Len(outcome) = 3
    /\ \A o \in Failures : \E i \in 1 .. 3 : outcome[i] = o
    /\ job_queue = <<>>
    /\ worker_pc = "get"

\* C27: the remote client is only closed, and the application only stopped,
\* once the cancelled dispatcher task has ended; from task.cancel() on no step
\* takes a job off the queue, launches a child or adds one to the children
\* alive, even with jobs queued.
C27_CancelledBeforeClose ==
    [][/\ remote_client'.is_closed => worker_pc' = "cancelled"
       /\ app' = "stopped" => remote_client'.is_closed
       /\ app # "serving" =>
             /\ job_queue' = job_queue
             /\ dequeued' = dequeued
             /\ launch_count' = launch_count
             /\ children' \subseteq children
             /\ worker_pc' \notin {"get", "launch", "communicate"}]_vars

\* C27 witness: the application has stopped with the client closed, after a
\* shutdown that cancelled the job in flight while another job was queued.
C27_Witness ==
    /\ app = "stopped"
    /\ remote_client.is_closed
    /\ worker_pc = "cancelled"
    /\ job_queue # <<>>
    /\ \E i \in 1 .. Len(outcome) : outcome[i] = "CANCELLED"

\* The job with sequence number i has been handed to the loop.
Dequeued(i) == \E k \in 1 .. Len(dequeued) : dequeued[k] = i

\* C28: when every child terminates, the dispatcher task is fairly scheduled
\* and no shutdown occurs, every job put on the queue is eventually dequeued
\* and eventually ends: succeeded, failed (non-zero exit or launch error) or
\* dropped as invalid.
C28_EveryJobEnds ==
    \A i \in 1 .. MaxJobs :
        (i <= next_seq) ~> (Dequeued(i) /\ outcome[i] \in Terminal)

\* C28 witness: three jobs have ended, in three different ways; the last
\* submission found another job waiting.
C28_Witness ==
    /\ Len(dequeued) = 3
    /\ \A i \in 1 .. 3 : outcome[i] \in Terminal
    /\ Cardinality({ outcome[i] : i \in 1 .. 3 }) = 3
    /\ last_ack.positionInQueue >= 2

\* C29: a step changes the duration estimate only if it is the collection of
\* a child that exited with status 0 (the job then counts as succeeded); a
\* step that ends a job in another way (dropped as invalid, launch error,
\* non-zero exit, cancelled) and a step that puts a job on the queue leave
\* the estimate as it was.
C29_EstimateFrame ==
    [][/\ _average_duration_seconds' # _average_duration_seconds =>
             /\ worker_pc = "communicate"
             /\ process = "exit0"
             /\ outcome'[job_payload.seq] = "SUCCEEDED"
       /\ (\E i \in 1 .. Len(outcome) :
              outcome'[i] # outcome[i] /\ outcome'[i] \in Failures \cup {"CANCELLED"}) =>
             _average_duration_seconds' = _average_duration_seconds
       /\ next_seq' # next_seq =>
             _average_duration_seconds' = _average_duration_seconds]_vars

\* C29 witness: after a run of 10 s that succeeded, two jobs ended in two
\* different ways of failing; the estimate is still 10.
C29_Witness ==
    /\ Len(outcome) = 3
    /\ outcome[1] = "SUCCEEDED"
    /\ {outcome[2], outcome[3]} \subseteq Failures
    /\ outcome[2] # outcome[3]
    /\ recorded = <<10>>
    /\ _average_duration_seconds = Float(10, 1)

\* ------------------------------------------------------------------------
\* Properties: the token of the shared client
\* ------------------------------------------------------------------------
\* The callers whose login() has not returned.
InFlight == { c \in Callers : callers[c].pc = "login" }

\* C26 (as claimed): at most one login() is in flight at any time, and the
\* callers that arrive while the token is missing or stale trigger a single
\* login between them: two logins are always more than a refresh interval
\* apart.
C26_SingleLoginAsClaimed ==
    /\ Cardinality(InFlight) <= 1
    /\ \A i \in 1 .. Len(logins) : \A j \in 1 .. Len(logins) :
          i < j => logins[j].start - logins[i].start >
                      REMOTE_API_AUTH_TOKEN_REFRESH_INTERVAL

\* C26 (amended): at most one login() is in flight at any time and only the
\* holder of the lock is in it; after a login() that returned a token no
\* caller logs in again until more than a refresh interval has passed since
\* the time read before that login; a caller that got headers got the token
\* of a login that succeeded, so one that waited on the lock during that
\* login reuses it.  (A login() that raised stored nothing: the next caller
\* that takes the lock logs in again.)
C26_SingleFlightLogin ==
    /\ Cardinality(InFlight) <= 1
    /\ Cardinality({ k \in 1 .. Len(logins) : logins[k].result = "pending" }) <= 1
    /\ \A c \in InFlight : remote_client._auth_refresh_lock.owner = c
    /\ \A i \in 1 .. Len(logins) : \A j \in 1 .. Len(logins) :
          (i < j /\ logins[i].result = "ok") =>
              logins[j].start - logins[i].start > REMOTE_API_AUTH_TOKEN_REFRESH_INTERVAL
    /\ \A c \in Callers : callers[c].pc = "done" =>
          /\ callers[c].headers \in 1 .. Len(logins)
          /\ logins[callers[c].headers].result = "ok"

\* C26 witness: a caller that waited on the lock while another one logged in
\* has returned with the token of that login, the only login made.
C26_Witness ==
    \E c \in Callers :
        /\ callers[c].waited
        /\ callers[c].pc = "done"
        /\ Len(logins) = 1
        /\ logins[1].caller # c
        /\ callers[c].headers = 1

=============================================================================
